---- MODULE Spec2Model ----
(***************************************************************************)
(* ReceivablesManagement (src/src/components/receivables-management.tsx):  *)
(* the "pending receivables" view.  The component state (the four useState  *)
(* cells), the prop userId, the auth context, the requests in flight to the *)
(* data layer, and the outputs of the export handler (toasts, saved files). *)
(*                                                                         *)
(* Every handler is an async function: the part before its await is one     *)
(* action (the event handler run to its first await), the part after it is  *)
(* another (the continuation, run when the data layer answers).  What a     *)
(* continuation reads from its closure (userId, authUser, formatType) is    *)
(* stored in the request it waits on.                                       *)
(***************************************************************************)
EXTENDS Integers, Sequences, FiniteSets, TLC

VARIABLES
    userId,            \* prop userId
    authUser,          \* useAuth().authUser
    now,               \* the clock read by new Date(): an index into Dates
    mounted,           \* the mount effect has run
    customers,         \* useState<CustomerWithDue[]>([])
    hasMore,           \* useState(true)
    isInitialLoading,  \* useState(true)
    isLoadingMore,     \* useState(false)
    requests,          \* getCustomersWithDueBalancePaginated calls in flight, oldest first
    downloads,         \* getCustomersWithDueBalance calls in flight, oldest first
    toastCount,        \* number of toasts raised so far
    toast,             \* title of the last toast raised ("" when none)
    savedCount,        \* number of files handed to the browser so far
    saved,             \* the last file handed to the browser
    started,           \* number of handleDownload calls so far
    event,             \* history: what the last step did
    lastReported,      \* history: hasMore of the last page response applied
    initialFailed,     \* history: an initial load rejected while isInitialLoading, and none started after it succeeded
    loadMoreFailed,    \* history: a load-more request rejected
    loadMoreThrew      \* history: handleLoadMore threw reading the last customer

pageVars == <<mounted, customers, hasMore, isInitialLoading, isLoadingMore, requests,
              lastReported, initialFailed, loadMoreFailed, loadMoreThrew>>
downloadVars == <<downloads, toastCount, toast, savedCount, saved, started>>
vars == <<userId, authUser, now, pageVars, downloadVars, event>>

----------------------------------------------------------------------------
(* Bounds of the model *)

MaxPage == 2        \* longest page the data layer is made to answer with
MaxCustomers == 4   \* load more is not clicked once the list could outgrow this
MaxInFlight == 2    \* page requests in flight at once
MaxDownloads == 2   \* handleDownload calls in a behaviour
MaxAll == 2         \* longest list getCustomersWithDueBalance is made to answer with

(* pageLimit: 5, in both calls of getCustomersWithDueBalancePaginated *)
PageLimit == 5

----------------------------------------------------------------------------
(* Data *)

UserIds == {"", "u1", "u2"}

\* CustomerWithDue: id, name, phone, dueBalance (dueBalance in cents)
AllCustomers ==
    { [id |-> "c1", name |-> "Ann",  phone |-> "555-0101", dueBalance |-> 120050],
      [id |-> "c2", name |-> "Bob",  phone |-> "555-0102", dueBalance |-> 7505],
      [id |-> "c3", name |-> "Cy",   phone |-> "555-0103", dueBalance |-> 900],
      [id |-> "c4", name |-> "Dee",  phone |-> "555-0104", dueBalance |-> 1] }

\* whose customer each record is, in the data layer
OwnerOf(c) == IF c.id \in {"c1", "c2"} THEN "u1" ELSE "u2"

CustomersOf(u) == { c \in AllCustomers : OwnerOf(c) = u }

Min(a, b) == IF a < b THEN a ELSE b

IsPrefix(s, t) == Len(s) <= Len(t) /\ \A i \in 1..Len(s) : s[i] = t[i]

RemoveAt(s, i) == [j \in 1..(Len(s) - 1) |-> IF j < i THEN s[j] ELSE s[j + 1]]

\* the sequences of at most n distinct elements of S
RECURSIVE SeqsUpTo(_, _)
SeqsUpTo(S, n) ==
    IF n = 0 THEN { <<>> }
    ELSE LET shorter == SeqsUpTo(S, n - 1)
         IN shorter \cup
              UNION { { Append(s, c) : c \in S \ { s[i] : i \in 1..Len(s) } } :
                          s \in shorter }

NoCursor == [id |-> "", dueBalance |-> 0]

----------------------------------------------------------------------------
(* The data layer, '@/lib/actions' *)

\* getCustomersWithDueBalancePaginated({userId, pageLimit, lastVisible?})
\*   -> {customersWithDue, hasMore}: the answers it can give to request r
PageResponses(r) ==
    { [customersWithDue |-> p, hasMore |-> h] :
        p \in SeqsUpTo(CustomersOf(r.userId), Min(r.pageLimit, MaxPage)),
        h \in BOOLEAN }

----------------------------------------------------------------------------
(* Initial load *)

\* loadInitialData up to its await: setIsInitialLoading(true) and the request
LoadInitialDataStart(u) ==
    /\ isInitialLoading' = TRUE
    /\ requests' = Append(requests,
                          [kind |-> "initial", userId |-> u, pageLimit |-> PageLimit,
                           lastVisible |-> NoCursor, old |-> FALSE])

\* the effect: if (userId) loadInitialData()
Effect(u) ==
    IF u # ""
    THEN /\ Len(requests) < MaxInFlight
         /\ LoadInitialDataStart(u)
    ELSE UNCHANGED <<isInitialLoading, requests>>

\* first commit: the effect runs for the userId the component was given
Mount ==
    /\ ~mounted
    /\ mounted' = TRUE
    /\ Effect(userId)
    /\ event' = [op |-> "mount", n |-> 0]
    /\ UNCHANGED <<userId, authUser, now, customers, hasMore, isLoadingMore,
                   lastReported, initialFailed, loadMoreFailed, loadMoreThrew, downloadVars>>

\* the parent re-renders with another userId: loadInitialData is a new callback,
\* the effect's dependencies changed, the effect runs again
SetUserId ==
    /\ mounted
    /\ \E u \in UserIds \ {userId} :
         /\ userId' = u
         /\ Effect(u)
    /\ event' = [op |-> "setUserId", n |-> 0]
    /\ UNCHANGED <<authUser, now, mounted, customers, hasMore, isLoadingMore,
                   lastReported, initialFailed, loadMoreFailed, loadMoreThrew, downloadVars>>

\* loadInitialData after its await
ResolveInitial ==
    /\ \E i \in 1..Len(requests) :
         /\ requests[i].kind = "initial"
         /\ \E resp \in PageResponses(requests[i]) :
              /\ customers' = resp.customersWithDue
              /\ hasMore' = resp.hasMore
              /\ isInitialLoading' = FALSE
              /\ lastReported' = IF resp.hasMore THEN "more" ELSE "end"
         /\ initialFailed' = (initialFailed /\ requests[i].old)
         /\ requests' = RemoveAt(requests, i)
    /\ event' = [op |-> "initialApplied", n |-> Len(customers')]
    /\ UNCHANGED <<userId, authUser, now, mounted, isLoadingMore,
                   loadMoreFailed, loadMoreThrew, downloadVars>>

\* the awaited call of loadInitialData rejects: nothing after the await runs
RejectInitial ==
    /\ \E i \in 1..Len(requests) :
         /\ requests[i].kind = "initial"
         /\ requests' = [j \in 1..(Len(requests) - 1) |->
                            IF j < i THEN [requests[j] EXCEPT !.old = TRUE]
                                     ELSE requests[j + 1]]
    /\ initialFailed' = (initialFailed \/ isInitialLoading)
    /\ event' = [op |-> "initialRejected", n |-> 0]
    /\ UNCHANGED <<userId, authUser, now, mounted, customers, hasMore, isInitialLoading,
                   isLoadingMore, lastReported, loadMoreFailed, loadMoreThrew, downloadVars>>

----------------------------------------------------------------------------
(* Load more *)

\* the 'Load More' control: {hasMore && <Button disabled={isLoadingMore}>}
LoadMoreRendered == hasMore
LoadMoreEnabled == hasMore /\ ~isLoadingMore

\* handleLoadMore with the guard  if (isLoadingMore) return;
HandleLoadMore_IgnoresHasMore ==
    /\ mounted
    /\ IF isLoadingMore
       THEN /\ event' = [op |-> "loadMoreIgnored", n |-> 0]
            /\ UNCHANGED <<isLoadingMore, requests, loadMoreThrew>>
       ELSE /\ isLoadingMore' = TRUE
            /\ IF Len(customers) = 0
               THEN \* customers[-1] is undefined: lastCustomer.id throws
                    /\ event' = [op |-> "loadMoreThrew", n |-> 0]
                    /\ loadMoreThrew' = TRUE
                    /\ UNCHANGED requests
               ELSE /\ Len(requests) < MaxInFlight
                    /\ Len(customers) + MaxPage <= MaxCustomers
                    /\ LET lastCustomer == customers[Len(customers)]
                           lastVisible == [id |-> lastCustomer.id,
                                           dueBalance |-> lastCustomer.dueBalance]
                       IN requests' = Append(requests,
                              [kind |-> "more", userId |-> userId, pageLimit |-> PageLimit,
                               lastVisible |-> lastVisible, old |-> FALSE])
                    /\ event' = [op |-> "loadMoreIssued", n |-> 0]
                    /\ UNCHANGED loadMoreThrew
    /\ UNCHANGED <<userId, authUser, now, mounted, customers, hasMore, isInitialLoading,
                   lastReported, initialFailed, loadMoreFailed, downloadVars>>

\* handleLoadMore with the guard  if (!hasMore) return;
HandleLoadMore_IgnoresLoading ==
    /\ mounted
    /\ IF ~hasMore
       THEN /\ event' = [op |-> "loadMoreIgnored", n |-> 0]
            /\ UNCHANGED <<isLoadingMore, requests, loadMoreThrew>>
       ELSE /\ isLoadingMore' = TRUE
            /\ IF Len(customers) = 0
               THEN \* customers[-1] is undefined: lastCustomer.id throws
                    /\ event' = [op |-> "loadMoreThrew", n |-> 0]
                    /\ loadMoreThrew' = TRUE
                    /\ UNCHANGED requests
               ELSE /\ Len(requests) < MaxInFlight
                    /\ Len(customers) + MaxPage <= MaxCustomers
                    /\ LET lastCustomer == customers[Len(customers)]
                           lastVisible == [id |-> lastCustomer.id,
                                           dueBalance |-> lastCustomer.dueBalance]
                       IN requests' = Append(requests,
                              [kind |-> "more", userId |-> userId, pageLimit |-> PageLimit,
                               lastVisible |-> lastVisible, old |-> FALSE])
                    /\ event' = [op |-> "loadMoreIssued", n |-> 0]
                    /\ UNCHANGED loadMoreThrew
    /\ UNCHANGED <<userId, authUser, now, mounted, customers, hasMore, isInitialLoading,
                   lastReported, initialFailed, loadMoreFailed, downloadVars>>

\* handleLoadMore with  lastCustomer = customers[0]
HandleLoadMore_FirstCustomer ==
    /\ mounted
    /\ IF ~hasMore \/ isLoadingMore
       THEN /\ event' = [op |-> "loadMoreIgnored", n |-> 0]
            /\ UNCHANGED <<isLoadingMore, requests, loadMoreThrew>>
       ELSE /\ isLoadingMore' = TRUE
            /\ IF Len(customers) = 0
               THEN \* customers[-1] is undefined: lastCustomer.id throws
                    /\ event' = [op |-> "loadMoreThrew", n |-> 0]
                    /\ loadMoreThrew' = TRUE
                    /\ UNCHANGED requests
               ELSE /\ Len(requests) < MaxInFlight
                    /\ Len(customers) + MaxPage <= MaxCustomers
                    /\ LET lastCustomer == customers[1]
                           lastVisible == [id |-> lastCustomer.id,
                                           dueBalance |-> lastCustomer.dueBalance]
                       IN requests' = Append(requests,
                              [kind |-> "more", userId |-> userId, pageLimit |-> PageLimit,
                               lastVisible |-> lastVisible, old |-> FALSE])
                    /\ event' = [op |-> "loadMoreIssued", n |-> 0]
                    /\ UNCHANGED loadMoreThrew
    /\ UNCHANGED <<userId, authUser, now, mounted, customers, hasMore, isInitialLoading,
                   lastReported, initialFailed, loadMoreFailed, downloadVars>>

\* handleLoadMore up to its await.  It is reachable from the button only, but
\* the guard of line 49 is the handler's own, so the call is modelled from
\* every state.
HandleLoadMore ==
    /\ mounted
    /\ IF ~hasMore \/ isLoadingMore
       THEN /\ event' = [op |-> "loadMoreIgnored", n |-> 0]
            /\ UNCHANGED <<isLoadingMore, requests, loadMoreThrew>>
       ELSE /\ isLoadingMore' = TRUE
            /\ IF Len(customers) = 0
               THEN \* customers[-1] is undefined: lastCustomer.id throws
                    /\ event' = [op |-> "loadMoreThrew", n |-> 0]
                    /\ loadMoreThrew' = TRUE
                    /\ UNCHANGED requests
               ELSE /\ Len(requests) < MaxInFlight
                    /\ Len(customers) + MaxPage <= MaxCustomers
                    /\ LET lastCustomer == customers[Len(customers)]
                           lastVisible == [id |-> lastCustomer.id,
                                           dueBalance |-> lastCustomer.dueBalance]
                       IN requests' = Append(requests,
                              [kind |-> "more", userId |-> userId, pageLimit |-> PageLimit,
                               lastVisible |-> lastVisible, old |-> FALSE])
                    /\ event' = [op |-> "loadMoreIssued", n |-> 0]
                    /\ UNCHANGED loadMoreThrew
    /\ UNCHANGED <<userId, authUser, now, mounted, customers, hasMore, isInitialLoading,
                   lastReported, initialFailed, loadMoreFailed, downloadVars>>

\* handleLoadMore with  setCustomers(prev => [...newCustomers, ...prev])
ResolveLoadMore_Prepends ==
    /\ \E i \in 1..Len(requests) :
         /\ requests[i].kind = "more"
         /\ \E resp \in PageResponses(requests[i]) :
              /\ customers' = resp.customersWithDue \o customers
              /\ hasMore' = resp.hasMore
              /\ isLoadingMore' = FALSE
              /\ lastReported' = IF resp.hasMore THEN "more" ELSE "end"
              /\ event' = [op |-> "loadMoreApplied", n |-> Len(resp.customersWithDue)]
         /\ requests' = RemoveAt(requests, i)
    /\ UNCHANGED <<userId, authUser, now, mounted, isInitialLoading,
                   initialFailed, loadMoreFailed, loadMoreThrew, downloadVars>>

\* handleLoadMore after its await
ResolveLoadMore ==
    /\ \E i \in 1..Len(requests) :
         /\ requests[i].kind = "more"
         /\ \E resp \in PageResponses(requests[i]) :
              /\ customers' = customers \o resp.customersWithDue
              /\ hasMore' = resp.hasMore
              /\ isLoadingMore' = FALSE
              /\ lastReported' = IF resp.hasMore THEN "more" ELSE "end"
              /\ event' = [op |-> "loadMoreApplied", n |-> Len(resp.customersWithDue)]
         /\ requests' = RemoveAt(requests, i)
    /\ UNCHANGED <<userId, authUser, now, mounted, isInitialLoading,
                   initialFailed, loadMoreFailed, loadMoreThrew, downloadVars>>

\* the awaited call of handleLoadMore rejects: nothing after the await runs
RejectLoadMore ==
    /\ \E i \in 1..Len(requests) :
         /\ requests[i].kind = "more"
         /\ requests' = RemoveAt(requests, i)
    /\ loadMoreFailed' = TRUE
    /\ event' = [op |-> "loadMoreRejected", n |-> 0]
    /\ UNCHANGED <<userId, authUser, now, mounted, customers, hasMore, isInitialLoading,
                   isLoadingMore, lastReported, initialFailed, loadMoreThrew, downloadVars>>

----------------------------------------------------------------------------

(* Report export *)

\* useAuth().authUser: null, or the signed-in user's profile
NoAuthUser == [isNull |-> TRUE, companyName |-> "", address |-> "", phone |-> "",
               bkashNumber |-> "", bankInfo |-> ""]

AuthUsers ==
    { NoAuthUser,
      [isNull |-> FALSE, companyName |-> "", address |-> "", phone |-> "",
       bkashNumber |-> "", bankInfo |-> ""],
      [isNull |-> FALSE, companyName |-> "Boi Ghor", address |-> "12 College Rd",
       phone |-> "555-0100", bkashNumber |-> "", bankInfo |-> "City Bank 1234"],
      [isNull |-> FALSE, companyName |-> "Boi Ghor", address |-> "12 College Rd",
       phone |-> "555-0100", bkashNumber |-> "01700000000", bankInfo |-> "City Bank 1234"] }

\* the days the clock passes through
Dates == << [y |-> 2024, m |-> 9, d |-> 30],
            [y |-> 2024, m |-> 10, d |-> 1],
            [y |-> 2025, m |-> 1, d |-> 3] >>

MonthNames == << "January", "February", "March", "April", "May", "June", "July",
                 "August", "September", "October", "November", "December" >>

Pad2(n) == IF n < 10 THEN "0" \o ToString(n) ELSE ToString(n)

Pad4(n) == IF n < 10 THEN "000" \o ToString(n)
           ELSE IF n < 100 THEN "00" \o ToString(n)
           ELSE IF n < 1000 THEN "0" \o ToString(n)
           ELSE ToString(n)

\* date-fns format(date, 'yyyy-MM-dd')
FormatIsoDate(date) == Pad4(date.y) \o "-" \o Pad2(date.m) \o "-" \o Pad2(date.d)

\* the English ordinal of a day of the month, date-fns 'do'
Ordinal(n) ==
    LET suffix == IF (n % 100) \in 11..13 THEN "th"
                  ELSE IF n % 10 = 1 THEN "st"
                  ELSE IF n % 10 = 2 THEN "nd"
                  ELSE IF n % 10 = 3 THEN "rd"
                  ELSE "th"
    IN ToString(n) \o suffix

\* date-fns format(date, 'PPP'), en-US: "September 30th, 2024"
FormatLongDate(date) ==
    MonthNames[date.m] \o " " \o Ordinal(date.d) \o ", " \o ToString(date.y)

\* Number.prototype.toFixed(2), of an amount held in cents
ToFixed2(cents) == ToString(cents \div 100) \o "." \o Pad2(cents % 100)

\* getCustomersWithDueBalance(userId): the answers it can give
AllResponses(u) == SeqsUpTo(CustomersOf(u), MaxAll)

ReportHead == << "Customer", "Phone", "Due Amount" >>

\* allCustomersWithDue.map(c => ({Customer, Phone, 'Due Amount'})), each row in key order
ReportBody_Reversed(all) ==
    [i \in 1..Len(all) |->
        LET c == all[Len(all) + 1 - i]
        IN << c.name, c.phone, "$" \o ToFixed2(c.dueBalance) >>]

ReportBody(all) ==
    [i \in 1..Len(all) |->
        LET c == all[i]
        IN << c.name, c.phone, "$" \o ToFixed2(c.dueBalance) >>]

Text(str, x, y, align, size, style, color) ==
    [str |-> str, x |-> x, y |-> y, align |-> align,
     size |-> size, style |-> style, color |-> color]

OrElse(str, default) == IF str # "" THEN str ELSE default

\* the jsPDF document of the pdf branch, as saved
PdfFile(user, date, body) ==
    LET left == << Text(OrElse(user.companyName, "Bookstore"), 14, 20, "left", 16, "bold", 0),
                   Text(user.address, 14, 26, "left", 10, "normal", 0),
                   Text(user.phone, 14, 32, "left", 10, "normal", 0) >>
        bkash == IF user.bkashNumber # ""
                 THEN << Text("Bkash: " \o user.bkashNumber, 200, 20, "right", 10, "normal", 0) >>
                 ELSE << >>
        yPos == IF user.bkashNumber # "" THEN 20 + 6 ELSE 20
        bank == IF user.bankInfo # ""
                THEN << Text("Bank: " \o user.bankInfo, 200, yPos, "right", 10, "normal", 0) >>
                ELSE << >>
        title == << Text("Pending Receivables Report", 105, 45, "center", 14, "bold", 0),
                    Text("As of " \o FormatLongDate(date), 105, 51, "center", 10, "normal", 100) >>
    IN [kind |-> "pdf",
        name |-> "pending-receivables-" \o FormatIsoDate(date) \o ".pdf",
        texts |-> left \o bkash \o bank \o title,
        startY |-> 60,
        head |-> << ReportHead >>,
        body |-> body]

\* a line of Papa.unparse: the fields joined by the delimiter
RECURSIVE JoinFields(_)
JoinFields(row) ==
    IF Len(row) = 0 THEN ""
    ELSE IF Len(row) = 1 THEN row[1]
    ELSE row[1] \o "," \o JoinFields(Tail(row))

\* Papa.unparse(body): the keys of the first object, then one line per object
Unparse(body) ==
    IF Len(body) = 0 THEN << >>
    ELSE << JoinFields(ReportHead) >> \o [i \in 1..Len(body) |-> JoinFields(body[i])]

\* the Blob downloaded through the link of the csv branch
CsvFile(date, body) ==
    [kind |-> "csv",
     name |-> "pending-receivables-" \o FormatIsoDate(date) \o ".csv",
     type |-> "text/csv;charset=utf-8;",
     lines |-> Unparse(body)]

NoFile == [kind |-> "none", name |-> ""]

\* the auth context changes (sign-in completes, profile edited, sign-out)
SetAuthUser ==
    /\ \E a \in AuthUsers \ {authUser} : authUser' = a
    /\ event' = [op |-> "setAuthUser", n |-> 0]
    /\ UNCHANGED <<userId, now, pageVars, downloadVars>>

\* midnight passes
Tick ==
    /\ now < Len(Dates)
    /\ now' = now + 1
    /\ event' = [op |-> "tick", n |-> 0]
    /\ UNCHANGED <<userId, authUser, pageVars, downloadVars>>

\* handleDownload up to its await
HandleDownload ==
    /\ mounted
    /\ started < MaxDownloads
    /\ started' = started + 1
    /\ \E formatType \in {"pdf", "csv"} :
         downloads' = Append(downloads, [formatType |-> formatType, userId |-> userId,
                                         authUser |-> authUser])
    /\ event' = [op |-> "downloadRequested", n |-> 0]
    /\ UNCHANGED <<userId, authUser, now, pageVars, toastCount, toast, savedCount, saved>>

\* handleDownload with the guard  if (!authUser)
ResolveDownload_NoEmptyCheck ==
    /\ \E i \in 1..Len(downloads) :
         LET d == downloads[i]
         IN \E allCustomersWithDue \in AllResponses(d.userId) :
              /\ IF d.authUser.isNull
                 THEN /\ toastCount' = toastCount + 1
                      /\ toast' = "No Data"
                      /\ UNCHANGED <<savedCount, saved>>
                 ELSE LET body == ReportBody(allCustomersWithDue)
                      IN /\ saved' = IF d.formatType = "pdf"
                                     THEN PdfFile(d.authUser, Dates[now], body)
                                     ELSE CsvFile(Dates[now], body)
                         /\ savedCount' = savedCount + 1
                         /\ UNCHANGED <<toastCount, toast>>
              /\ downloads' = RemoveAt(downloads, i)
              /\ event' = [op |-> "downloadResolved", n |-> Len(allCustomersWithDue),
                           request |-> d, returned |-> allCustomersWithDue]
    /\ UNCHANGED <<userId, authUser, now, pageVars, started>>

\* handleDownload after its await
ResolveDownload ==
    /\ \E i \in 1..Len(downloads) :
         LET d == downloads[i]
         IN \E allCustomersWithDue \in AllResponses(d.userId) :
              /\ IF Len(allCustomersWithDue) = 0 \/ d.authUser.isNull
                 THEN /\ toastCount' = toastCount + 1
                      /\ toast' = "No Data"
                      /\ UNCHANGED <<savedCount, saved>>
                 ELSE LET body == ReportBody(allCustomersWithDue)
                      IN /\ saved' = IF d.formatType = "pdf"
                                     THEN PdfFile(d.authUser, Dates[now], body)
                                     ELSE CsvFile(Dates[now], body)
                         /\ savedCount' = savedCount + 1
                         /\ UNCHANGED <<toastCount, toast>>
              /\ downloads' = RemoveAt(downloads, i)
              /\ event' = [op |-> "downloadResolved", n |-> Len(allCustomersWithDue),
                           request |-> d, returned |-> allCustomersWithDue]
    /\ UNCHANGED <<userId, authUser, now, pageVars, started>>

\* the awaited call of handleDownload rejects: nothing after the await runs
RejectDownload ==
    /\ \E i \in 1..Len(downloads) : downloads' = RemoveAt(downloads, i)
    /\ event' = [op |-> "downloadRejected", n |-> 0]
    /\ UNCHANGED <<userId, authUser, now, pageVars, toastCount, toast, savedCount, saved,
                   started>>

----------------------------------------------------------------------------

Init ==
    /\ userId \in UserIds
    /\ authUser = NoAuthUser
    /\ now = 1
    /\ mounted = FALSE
    /\ customers = <<>>
    /\ hasMore = TRUE
    /\ isInitialLoading = TRUE
    /\ isLoadingMore = FALSE
    /\ requests = <<>>
    /\ downloads = <<>>
    /\ toastCount = 0
    /\ toast = ""
    /\ savedCount = 0
    /\ saved = NoFile
    /\ started = 0
    /\ event = [op |-> "none", n |-> 0]
    /\ lastReported = "none"
    /\ initialFailed = FALSE
    /\ loadMoreFailed = FALSE
    /\ loadMoreThrew = FALSE

Next ==
    \/ Mount
    \/ SetUserId
    \/ ResolveInitial
    \/ RejectInitial
    \/ HandleLoadMore
    \/ ResolveLoadMore
    \/ RejectLoadMore

Spec == Init /\ [][Next]_vars

\* The export handler reads userId and authUser and writes none of the
\* pagination state, and no pagination step writes what it reads or writes: it
\* is checked from the mounted component, next to the auth context and the clock.
InitDownload ==
    /\ userId \in UserIds
    /\ authUser \in AuthUsers
    /\ now = 1
    /\ mounted = TRUE
    /\ customers = <<>>
    /\ hasMore = TRUE
    /\ isInitialLoading = TRUE
    /\ isLoadingMore = FALSE
    /\ requests = IF userId # ""
                  THEN << [kind |-> "initial", userId |-> userId, pageLimit |-> PageLimit,
                           lastVisible |-> NoCursor, old |-> FALSE] >>
                  ELSE << >>
    /\ downloads = <<>>
    /\ toastCount = 0
    /\ toast = ""
    /\ savedCount = 0
    /\ saved = NoFile
    /\ started = 0
    /\ event = [op |-> "mount", n |-> 0]
    /\ lastReported = "none"
    /\ initialFailed = FALSE
    /\ loadMoreFailed = FALSE
    /\ loadMoreThrew = FALSE

NextDownload ==
    \/ SetAuthUser
    \/ Tick
    \/ HandleDownload
    \/ ResolveDownload
    \/ RejectDownload

SpecDownload == InitDownload /\ [][NextDownload]_vars

----------------------------------------------------------------------------
(* Properties of pagination, checked under Spec *)

\* the steps that are calls of handleLoadMore
LoadMoreCalled == event'.op \in {"loadMoreIgnored", "loadMoreThrew", "loadMoreIssued"}

MoreInFlight == { i \in 1..Len(requests) : requests[i].kind = "more" }
InitialInFlight == { i \in 1..Len(requests) : requests[i].kind = "initial" }

\* C1: a call of handleLoadMore made while hasMore is false or isLoadingMore is
\* true issues no page request and leaves customers, hasMore, isInitialLoading
\* and isLoadingMore as they were.
C1_LoadMoreNoOpWhenGuarded ==
    [][ (LoadMoreCalled /\ (~hasMore \/ isLoadingMore))
            => UNCHANGED <<customers, hasMore, isInitialLoading, isLoadingMore, requests>> ]_vars

\* a load more was just ignored while a load-more request is pending
C1_Witness ==
    /\ event.op = "loadMoreIgnored"
    /\ hasMore /\ isLoadingMore
    /\ MoreInFlight # {}

\* C2: the page request a call of handleLoadMore issues carries the id and the
\* dueBalance of the last element of customers as the list stands at the call,
\* the component's userId (the one the initial load uses) and pageLimit 5.
C2_CursorIsLastCustomer ==
    [][ (Len(requests') = Len(requests) + 1 /\ requests'[Len(requests')].kind = "more")
            => /\ Len(customers) > 0
               /\ LET r == requests'[Len(requests')]
                  IN /\ r.lastVisible.id = customers[Len(customers)].id
                     /\ r.lastVisible.dueBalance = customers[Len(customers)].dueBalance
                     /\ r.userId = userId
                     /\ r.pageLimit = 5
               /\ \A i \in InitialInFlight : requests[i].pageLimit = 5 ]_vars

\* a load more was just issued from a list of two customers
C2_Witness ==
    /\ event.op = "loadMoreIssued"
    /\ Len(customers) = 2
    /\ \E i \in MoreInFlight : /\ requests[i].lastVisible.id = customers[2].id
                               /\ requests[i].lastVisible.id # customers[1].id

\* C3: applying a load-more response keeps the list held before it as a prefix
\* of the list held after it.
C3_AppendKeepsPrefix ==
    [][ event'.op = "loadMoreApplied" => IsPrefix(customers, customers') ]_vars

\* a non-empty page was just appended to a non-empty list
C3_Witness ==
    /\ event.op = "loadMoreApplied"
    /\ event.n > 0
    /\ Len(customers) > event.n
    /\ customers[1] # customers[Len(customers)]

\* C6: the 'Load More' control is rendered only after a page response reported
\* hasMore = true; not before the first page arrived.
C6_LoadMoreOnlyWhileMoreRemain ==
    (mounted /\ LoadMoreRendered) => lastReported = "more"

\* C7 (as stated): at most one load-more request and at most one initial-load
\* request are outstanding.
C7_AtMostOneRequestPerAction ==
    /\ Cardinality(MoreInFlight) <= 1
    /\ Cardinality(InitialInFlight) <= 1

\* C7 (amended): at most one load-more request is outstanding, also while
\* initial loads are pending or the userId changes.
C7_AtMostOneLoadMoreInFlight ==
    Cardinality(MoreInFlight) <= 1

\* the userId changed while a load more was pending: its initial load is in
\* flight next to the load-more request
C7_Witness ==
    /\ event.op = "setUserId"
    /\ Cardinality(MoreInFlight) = 1
    /\ Cardinality(InitialInFlight) = 1

\* C8: after a load-more request rejected, isLoadingMore is true in every later
\* state; after an initial-load request rejected, isInitialLoading is true in
\* every later state until an initial load started after the rejection succeeds.
C8_FailedFetchStaysUnresolved ==
    /\ loadMoreFailed => isLoadingMore
    /\ initialFailed => isInitialLoading

\* C9: whenever handleLoadMore would pass its guard, customers is non-empty.
C9_CursorCustomerExists ==
    (mounted /\ hasMore /\ ~isLoadingMore) => Len(customers) > 0

\* C10: once no page request is outstanding (and none was left rejected), every
\* customer of the list was returned for the component's current userId.
C10_OnlyCurrentUsersCustomers ==
    (mounted /\ userId # "" /\ requests = <<>> /\ ~initialFailed /\ ~loadMoreFailed)
        => \A i \in 1..Len(customers) : OwnerOf(customers[i]) = userId

----------------------------------------------------------------------------
(* Properties of the export, checked under SpecDownload *)

\* what the report shows for each customer of the data, written out by hand
ExpectedRow(c) ==
    CASE c.id = "c1" -> << "Ann", "555-0101", "$1200.50" >>
      [] c.id = "c2" -> << "Bob", "555-0102", "$75.05" >>
      [] c.id = "c3" -> << "Cy", "555-0103", "$9.00" >>
      [] c.id = "c4" -> << "Dee", "555-0104", "$0.01" >>

ExpectedLine(c) ==
    CASE c.id = "c1" -> "Ann,555-0101,$1200.50"
      [] c.id = "c2" -> "Bob,555-0102,$75.05"
      [] c.id = "c3" -> "Cy,555-0103,$9.00"
      [] c.id = "c4" -> "Dee,555-0104,$0.01"

\* the days of Dates as yyyy-MM-dd, written out by hand
ExpectedIsoDate == << "2024-09-30", "2024-10-01", "2025-01-03" >>

\* the step raised the 'No Data' toast and handed no file to the browser
NoDataAndNoFile ==
    /\ toastCount' = toastCount + 1
    /\ toast' = "No Data"
    /\ savedCount' = savedCount
    /\ saved' = saved

\* the step handed the browser the report of the answer it got, and no toast
ReportProduced ==
    LET formatType == event'.request.formatType
        returned == event'.returned
        N == Len(returned)
    IN /\ savedCount' = savedCount + 1
       /\ toastCount' = toastCount
       /\ toast' = toast
       /\ saved'.kind = formatType
       /\ saved'.name = "pending-receivables-" \o ExpectedIsoDate[now] \o "." \o formatType
       /\ IF formatType = "csv"
          THEN /\ Len(saved'.lines) = N + 1
               /\ saved'.lines[1] = "Customer,Phone,Due Amount"
               /\ \A i \in 1..N : saved'.lines[i + 1] = ExpectedLine(returned[i])
          ELSE /\ Len(saved'.body) = N
               /\ \A i \in 1..N : saved'.body[i] = ExpectedRow(returned[i])

\* C4: when getCustomersWithDueBalance answers with an empty list, handleDownload
\* raises the 'No Data' toast and produces no file, for 'pdf' and for 'csv'.
C4_EmptyExportNoFile ==
    [][ (event'.op = "downloadResolved" /\ event'.n = 0) => NoDataAndNoFile ]_vars

\* a signed-in user's export was just answered with an empty list
C4_Witness ==
    /\ event.op = "downloadResolved"
    /\ event.n = 0
    /\ ~event.request.authUser.isNull
    /\ toast = "No Data" /\ toastCount = 1
    /\ saved = NoFile /\ savedCount = 0

\* C5 (as stated): when getCustomersWithDueBalance answers with N >= 1
\* customers, handleDownload produces the file: header plus N lines for csv, N
\* body rows for pdf, in the order returned, named
\* pending-receivables-<yyyy-MM-dd>.<ext>, and raises no 'No Data' toast.
C5_ExportProducesFile ==
    [][ (event'.op = "downloadResolved" /\ event'.n >= 1) => ReportProduced ]_vars

\* C5 (amended): the same when authUser was set at the call of handleDownload;
\* when it was null the 'No Data' toast is raised and no file is produced.
C5_ExportProducesFileWhenSignedIn ==
    [][ (event'.op = "downloadResolved" /\ event'.n >= 1)
            => IF event'.request.authUser.isNull
               THEN NoDataAndNoFile
               ELSE ReportProduced ]_vars

\* a csv of two customers was just saved, on the second day
C5_Witness ==
    /\ event.op = "downloadResolved"
    /\ event.n = 2
    /\ ~event.request.authUser.isNull
    /\ now = 2
    /\ savedCount >= 1
    /\ saved.kind = "csv"
    /\ Len(saved.lines) = 3

====
